---- MODULE Spec2Model ----
(***************************************************************************)
(* A model of ArgConstructor (src/argconstructor.py): the ordered registry *)
(* of argument specifications filled by add_argument, and parse_args,      *)
(* which checks dependencies and conflicts over the supplied values and    *)
(* renders one token per registered argument.                              *)
(*                                                                         *)
(* Python objects are encoded as follows.  A value (a supplied value, a    *)
(* default, the `arguments`, `requires`, ... parameters) is a record       *)
(* [kind, items]: kind "none" is None, kind "scalar" is an object without  *)
(* __iter__ (items holds it), kind "list" is an iterable (items holds its  *)
(* elements in order).  Inside an iterable, None is NoneItem.  Integers    *)
(* are integers, names and flags are strings, float('inf') is Inf.         *)
(***************************************************************************)
EXTENDS Integers, Sequences, FiniteSets

VARIABLES
    arguments_list,        \* self._arguments_list: sequence of [name, params], in insertion order
    strict,                \* self._strict
    parameters_separator,  \* self._parameters_separator
    declared,              \* history: name -> the `mandatory` passed to add_argument
    lastOp,                \* history: "init", "add_argument" or "parse_args"
    lastKw,                \* history: the kwargs of the last parse_args call (after line 224)
    repeated,              \* history: the last two calls were parse_args with the same kwargs
    result                 \* history: what the last call returned or raised

vars == <<arguments_list, strict, parameters_separator, declared, lastOp, lastKw, repeated, result>>

---------------------------------------------------------------------------
(* Bounds of the model *)

\* longest value (number of items) supplied to parse_args in ParseSpec
MaxLen == 3

---------------------------------------------------------------------------
(* Encoding of Python objects *)

NoneItem == -1000

Inf == 1000

NoneVal == [kind |-> "none", items |-> <<>>]

Scalar(v) == [kind |-> "scalar", items |-> <<v>>]

ListOf(s) == [kind |-> "list", items |-> s]

Digit == <<"0", "1", "2", "3", "4", "5", "6", "7", "8", "9">>

RECURSIVE StrNat(_)
StrNat(n) == IF n < 10 THEN Digit[n + 1] ELSE StrNat(n \div 10) \o Digit[(n % 10) + 1]

\* str(i) for an integer i
Str(i) == IF i < 0 THEN "-" \o StrNat(0 - i) ELSE StrNat(i)

\* sep.join(strings)
RECURSIVE Join(_, _)
Join(sep, strings) ==
    IF Len(strings) = 0 THEN ""
    ELSE IF Len(strings) = 1 THEN strings[1]
    ELSE strings[1] \o sep \o Join(sep, Tail(strings))

Range(s) == {s[i] : i \in DOMAIN s}

\* the elements of set S in the order they have in sequence order
InOrder(S, order) == SelectSeq(order, LAMBDA x : x \in S)

---------------------------------------------------------------------------
(* The registry: an OrderedDict as a sequence of [name, params] *)

Keys(al) == {al[i].name : i \in DOMAIN al}

KeySeq(al) == [i \in DOMAIN al |-> al[i].name]

IndexOf(al, name) == CHOOSE i \in DOMAIN al : al[i].name = name

Params(al, name) == al[IndexOf(al, name)].params

\* self._arguments_list[name][field] = value
SetField(al, name, field, value) ==
    [al EXCEPT ![IndexOf(al, name)].params = [@ EXCEPT ![field] = value]]

\* _convert_to_iterable(arg, cast_func); cast_func is str, applied to names, or the identity
_convert_to_iterable(arg) ==
    IF arg.kind = "none" THEN <<>>
    ELSE IF arg.kind = "scalar" THEN <<arg.items[1]>>
    ELSE arg.items

\* _unpack_num_arguments(arguments): [err, min, max]
_unpack_num_arguments(arguments) ==
    IF arguments.kind = "list" /\ Len(arguments.items) # 2
    THEN [err |-> "InvalidArguments", min |-> 0, max |-> 0]
    ELSE
        LET min0 == IF arguments.kind = "none" THEN NoneItem ELSE arguments.items[1]
            max0 == IF arguments.kind = "none" THEN NoneItem
                    ELSE IF arguments.kind = "scalar" THEN arguments.items[1]
                    ELSE arguments.items[2]
            min1 == IF min0 = NoneItem \/ min0 < 0 THEN 0 ELSE min0
            max1 == IF max0 = NoneItem THEN Inf ELSE max0
        IN  IF min1 > max1
            THEN [err |-> "InvalidCardinality", min |-> 0, max |-> 0]
            ELSE [err |-> "", min |-> min1, max |-> max1]

\* the entry add_argument stores for valid parameters
NewEntry(name, opt, num) ==
    [name |-> name,
     params |-> [flag |-> opt.flag,
                 mandatory |-> opt.mandatory,
                 default |-> opt.default,
                 min_arguments |-> num.min,
                 max_arguments |-> num.max,
                 flag_separator |-> opt.flag_separator,
                 choices |-> opt.choices,
                 requires |-> _convert_to_iterable(opt.requires),
                 required_by |-> _convert_to_iterable(opt.required_by),
                 conflicts_with |-> _convert_to_iterable(opt.conflicts_with),
                 args_separator |-> opt.args_separator]]

\* AddArgumentResult without the check of line 48: the entry of a registered
\* name is replaced
AddArgumentOverwrite(al, name, opt) ==
    LET num == _unpack_num_arguments(opt.arguments)
    IN  IF num.err # "" THEN [err |-> num.err, al |-> al]
        ELSE IF opt.choices.kind # "none"
                /\ (opt.choices.kind # "list" \/ Len(opt.choices.items) = 0)
        THEN [err |-> "EmptyChoices", al |-> al]
        ELSE IF name \in Keys(al)
        THEN [err |-> "", al |-> [al EXCEPT ![IndexOf(al, name)] = NewEntry(name, opt, num)]]
        ELSE [err |-> "", al |-> Append(al, NewEntry(name, opt, num))]

\* add_argument(name, **opt): [err, al], al the registry after the call; opt holds
\* the other parameters by name
AddArgumentResult(al, name, opt) ==
    IF name \in Keys(al) THEN [err |-> "DuplicateName", al |-> al]
    ELSE
        LET num == _unpack_num_arguments(opt.arguments)
        IN  IF num.err # "" THEN [err |-> num.err, al |-> al]
            ELSE IF opt.choices.kind # "none"
                    /\ (opt.choices.kind # "list" \/ Len(opt.choices.items) = 0)
            THEN [err |-> "EmptyChoices", al |-> al]
            ELSE [err |-> "", al |-> Append(al, NewEntry(name, opt, num))]

---------------------------------------------------------------------------
(* parse_args and its helpers.  kwargs is a dict in insertion order: a     *)
(* sequence of [name, value] with distinct names.                          *)

KwNames(kwargs) == {kwargs[i].name : i \in DOMAIN kwargs}

\* kwargs.get(argument)
KwGet(kwargs, argument) ==
    IF argument \in KwNames(kwargs)
    THEN (CHOOSE e \in Range(kwargs) : e.name = argument).value
    ELSE NoneVal

\* line 224: eliminate kwargs which have the value None
DropNone(kwargs) == SelectSeq(kwargs, LAMBDA e : e.value.kind # "none")

\* lines 227-231: the surplus arguments, and kwargs without them
Surplus(al, kwargs) == SelectSeq(kwargs, LAMBDA e : e.name \notin Keys(al))

DropSurplus(al, kwargs) == SelectSeq(kwargs, LAMBDA e : e.name \in Keys(al))

\* lines 193-201: dependants[argument] as built from requires and required_by
Dependants(al, argument) ==
    (IF argument \in Keys(al) THEN Range(Params(al, argument).requires) ELSE {})
    \cup {al[i].name : i \in {j \in DOMAIN al : argument \in Range(al[j].params.required_by)}}

\* the (argument, dep) pairs in the order lines 202-203 visit them; setOrder is
\* the iteration order of the sets dependants[argument]
RECURSIVE DepPairs(_, _, _)
DepPairs(al, kwargs, setOrder) ==
    IF Len(kwargs) = 0 THEN <<>>
    ELSE LET argument == kwargs[1].name
             deps == InOrder(Dependants(al, argument), setOrder)
         IN  [i \in DOMAIN deps |-> [argument |-> argument, other |-> deps[i]]]
             \o DepPairs(al, Tail(kwargs), setOrder)

\* lines 204-207 for one pair: raise, or set the dep's mandatory flag
DepStep(al, names, pair) ==
    IF pair.other \notin names /\ pair.other \notin Keys(al)
    THEN [err |-> "KeyError", al |-> al]
    ELSE IF pair.other \notin names /\ Params(al, pair.other).default.kind = "none"
    THEN [err |-> "MissingDependency", al |-> al]
    ELSE [err |-> "", al |-> SetField(al, pair.other, "mandatory", TRUE)]

RECURSIVE DepLoop(_, _, _)
DepLoop(al, names, pairs) ==
    IF Len(pairs) = 0 THEN [err |-> "", al |-> al, argument |-> "", other |-> ""]
    ELSE LET r == DepStep(al, names, pairs[1])
         IN  IF r.err # ""
             THEN [err |-> r.err, al |-> r.al,
                   argument |-> pairs[1].argument, other |-> pairs[1].other]
             ELSE DepLoop(r.al, names, Tail(pairs))

\* _check_dependencies(kwargs): [err, al, argument, other]
_check_dependencies(al, kwargs, setOrder) ==
    DepLoop(al, KwNames(kwargs), DepPairs(al, kwargs, setOrder))

\* the (argument, conflict) pairs in the order lines 211-212 visit them
RECURSIVE ConflictPairs(_, _)
ConflictPairs(al, kwargs) ==
    IF Len(kwargs) = 0 THEN <<>>
    ELSE LET argument == kwargs[1].name
             conflicts == Params(al, argument).conflicts_with
         IN  [i \in DOMAIN conflicts |-> [argument |-> argument, other |-> conflicts[i]]]
             \o ConflictPairs(al, Tail(kwargs))

\* line 213 for one pair
ConflictStep(al, names, pair) ==
    IF pair.other \notin Keys(al) THEN "KeyError"
    ELSE IF Params(al, pair.other).mandatory \/ pair.other \in names
    THEN "ConflictingArguments"
    ELSE ""

RECURSIVE ConflictLoop(_, _, _)
ConflictLoop(al, names, pairs) ==
    IF Len(pairs) = 0 THEN [err |-> "", argument |-> "", other |-> ""]
    ELSE LET e == ConflictStep(al, names, pairs[1])
         IN  IF e # ""
             THEN [err |-> e, argument |-> pairs[1].argument, other |-> pairs[1].other]
             ELSE ConflictLoop(al, names, Tail(pairs))

\* _check_for_conflicts(kwargs): [err, argument, other]
_check_for_conflicts(al, kwargs) ==
    ConflictLoop(al, KwNames(kwargs), ConflictPairs(al, kwargs))

\* _check_against_choices(name, value, choices): TRUE when it raises
_check_against_choices(value, choices) ==
    choices.kind # "none" /\ value \notin Range(choices.items)

\* RenderValue with the upper bound of the cardinality taken as exclusive
RenderValueExclusiveMax(parameters, value) ==
    LET items == _convert_to_iterable(value)
    IN  IF parameters.min_arguments = 0 /\ parameters.max_arguments = 0
        THEN [err |-> "", none |-> FALSE, tok |-> parameters.flag]
        ELSE IF Len(items) < parameters.min_arguments \/ Len(items) >= parameters.max_arguments
        THEN [err |-> "CardinalityViolation", none |-> FALSE, tok |-> ""]
        ELSE [err |-> "", none |-> FALSE, tok |-> parameters.flag]

\* lines 136-163 of _parse_arg, for a value that is not None: [err, none, tok]
RenderValue(parameters, value) ==
    LET items == _convert_to_iterable(value)
    IN  IF parameters.min_arguments = 0 /\ parameters.max_arguments = 0
        THEN [err |-> "", none |-> FALSE, tok |-> parameters.flag]
        ELSE IF Len(items) < parameters.min_arguments \/ Len(items) > parameters.max_arguments
        THEN [err |-> "CardinalityViolation", none |-> FALSE, tok |-> ""]
        ELSE IF \E i \in DOMAIN items : _check_against_choices(items[i], parameters.choices)
        THEN [err |-> "InvalidChoice", none |-> FALSE, tok |-> ""]
        ELSE [err |-> "", none |-> FALSE,
              tok |-> Join(parameters.flag_separator,
                           <<parameters.flag,
                             Join(parameters.args_separator,
                                  [i \in DOMAIN items |->
                                      IF items[i] # NoneItem THEN Str(items[i]) ELSE ""])>>)]

\* _parse_arg(name, parameters, value): [err, none, tok]; none is "returned None"
_parse_arg(parameters, value) ==
    IF value.kind = "none"
    THEN IF parameters.mandatory
         THEN IF parameters.default.kind # "none"
              THEN RenderValue(parameters, parameters.default)
              ELSE [err |-> "MissingMandatory", none |-> FALSE, tok |-> ""]
         ELSE [err |-> "", none |-> TRUE, tok |-> ""]
    ELSE RenderValue(parameters, value)

\* lines 236-241: [err, argument, result_list, emitted]; emitted lists the names
\* whose token was appended to result_list
RECURSIVE RenderLoop(_, _, _, _, _)
RenderLoop(al, kwargs, i, result_list, emitted) ==
    IF i > Len(al)
    THEN [err |-> "", argument |-> "", result_list |-> result_list, emitted |-> emitted]
    ELSE LET r == _parse_arg(al[i].params, KwGet(kwargs, al[i].name))
         IN  IF r.err # ""
             THEN [err |-> r.err, argument |-> al[i].name,
                   result_list |-> <<>>, emitted |-> <<>>]
             ELSE IF r.none
             THEN RenderLoop(al, kwargs, i + 1, result_list, emitted)
             ELSE RenderLoop(al, kwargs, i + 1,
                             Append(result_list, r.tok), Append(emitted, al[i].name))

\* what a call hands back: err = "" and out when it returns, err when it raises;
\* stage names the step of parse_args that raised, argument and other the names
\* in the message
Outcome(stage, err, out, emitted, argument, other) ==
    [stage |-> stage, err |-> err, out |-> out, emitted |-> emitted,
     argument |-> argument, other |-> other]

\* RenderStage with the tokens of the supplied arguments first, in the order
\* the values were supplied in
RenderStageSupplyOrder(al, sep, kwargs) ==
    LET supplyOrder == [i \in DOMAIN kwargs |-> al[IndexOf(al, kwargs[i].name)]]
                       \o SelectSeq(al, LAMBDA e : e.name \notin KwNames(kwargs))
        ren == RenderLoop(supplyOrder, kwargs, 1, <<>>, <<>>)
    IN  IF ren.err # ""
        THEN [res |-> Outcome("render", ren.err, "", <<>>, ren.argument, ""), al |-> al]
        ELSE [res |-> Outcome("done", "", Join(sep, ren.result_list), ren.emitted, "", ""),
              al |-> al]

\* lines 236-243 of parse_args: [res, al]; res is the outcome, al the registry
\* the call leaves behind
RenderStage(al, sep, kwargs) ==
    LET ren == RenderLoop(al, kwargs, 1, <<>>, <<>>)
    IN  IF ren.err # ""
        THEN [res |-> Outcome("render", ren.err, "", <<>>, ren.argument, ""), al |-> al]
        ELSE [res |-> Outcome("done", "", Join(sep, ren.result_list), ren.emitted, "", ""),
              al |-> al]

\* ValidateStage with the conflict check before the dependency check
ValidateConflictsFirst(al, sep, kwargs, setOrder) ==
    LET con == _check_for_conflicts(al, kwargs)
    IN  IF con.err # ""
        THEN [res |-> Outcome("conflicts", con.err, "", <<>>, con.argument, con.other),
              al |-> al]
        ELSE
            LET dep == _check_dependencies(al, kwargs, setOrder)
            IN  IF dep.err # ""
                THEN [res |-> Outcome("dependencies", dep.err, "", <<>>,
                                      dep.argument, dep.other),
                      al |-> dep.al]
                ELSE RenderStage(dep.al, sep, kwargs)

\* lines 233-243 of parse_args: [res, al]
ValidateStage(al, sep, kwargs, setOrder) ==
    LET dep == _check_dependencies(al, kwargs, setOrder)
    IN  IF dep.err # ""
        THEN [res |-> Outcome("dependencies", dep.err, "", <<>>, dep.argument, dep.other),
              al |-> dep.al]
        ELSE
            LET con == _check_for_conflicts(dep.al, kwargs)
            IN  IF con.err # ""
                THEN [res |-> Outcome("conflicts", con.err, "", <<>>,
                                      con.argument, con.other),
                      al |-> dep.al]
                ELSE RenderStage(dep.al, sep, kwargs)

\* ParseArgsResult with the surplus arguments refused after the dependency check
ParseArgsLateSurplus(al, sep, isStrict, kwargs0, setOrder) ==
    LET kw1 == DropNone(kwargs0)
        surplus == Surplus(al, kw1)
    IN  IF Len(surplus) > 0 /\ isStrict
        THEN [res |-> Outcome("surplus", "UnknownArgument", "", <<>>, surplus[1].name, ""),
              al |-> _check_dependencies(al, DropSurplus(al, kw1), setOrder).al]
        ELSE ValidateStage(al, sep, DropSurplus(al, kw1), setOrder)

\* parse_args(**kwargs): [res, al]
ParseArgsResult(al, sep, isStrict, kwargs0, setOrder) ==
    LET kw1 == DropNone(kwargs0)
        surplus == Surplus(al, kw1)
    IN  IF Len(surplus) > 0 /\ isStrict
        THEN [res |-> Outcome("surplus", "UnknownArgument", "", <<>>, surplus[1].name, ""),
              al |-> al]
        ELSE ValidateStage(al, sep, DropSurplus(al, kw1), setOrder)

---------------------------------------------------------------------------
(* The state machine *)

\* ArgConstructor(parameters_separator, strict)
Init ==
    /\ arguments_list = <<>>
    /\ strict \in BOOLEAN
    /\ parameters_separator = " "
    /\ declared = <<>>
    /\ lastOp = "init"
    /\ lastKw = <<>>
    /\ repeated = FALSE
    /\ result = Outcome("", "", "", <<>>, "", "")

add_argument(name, opt) ==
    \E r \in {AddArgumentResult(arguments_list, name, opt)} :
        /\ arguments_list' = r.al
        /\ declared' = IF r.err = ""
                       THEN [n \in DOMAIN declared \cup {name} |->
                                IF n = name THEN opt.mandatory ELSE declared[n]]
                       ELSE declared
        /\ lastOp' = "add_argument"
        /\ lastKw' = <<>>
        /\ repeated' = FALSE
        /\ result' = Outcome("add_argument", r.err, "", <<>>, name, "")
        /\ UNCHANGED <<strict, parameters_separator>>

parse_args(kwargs, setOrder) ==
    \E r \in {ParseArgsResult(arguments_list, parameters_separator, strict, kwargs, setOrder)} :
        /\ arguments_list' = r.al
        /\ lastOp' = "parse_args"
        /\ lastKw' = DropNone(kwargs)
        /\ repeated' = (lastOp = "parse_args" /\ Range(lastKw) = Range(DropNone(kwargs)))
        /\ result' = r.res
        /\ UNCHANGED <<strict, parameters_separator, declared>>

---------------------------------------------------------------------------
(* Inputs *)

\* the names add_argument is called with
Registrable == {"a", "b"}

\* the names that occur at all: "c" is never registered, so it is the unknown
\* name of a parse_args call and the dangling target of a relation
Names == Registrable \cup {"c"}

FlagOf(name) == "-" \o name

\* every dict over the given names and values, in every insertion order
OrderedDicts(names, values) ==
    UNION {{s \in [1..k -> [name : names, value : values]] :
                \A i, j \in 1..k : i # j => s[i].name # s[j].name} :
           k \in 0..Cardinality(names)}

\* one relation at most, to another name; required_by with the name that is
\* never registered is left out, as nothing ever reads it
Relations(name) ==
    {[requires |-> NoneVal, required_by |-> NoneVal, conflicts_with |-> NoneVal]}
    \cup {[requires |-> Scalar(n), required_by |-> NoneVal, conflicts_with |-> NoneVal] :
            n \in Names \ {name}}
    \cup {[requires |-> NoneVal, required_by |-> Scalar(n), conflicts_with |-> NoneVal] :
            n \in Registrable \ {name}}
    \cup {[requires |-> NoneVal, required_by |-> NoneVal, conflicts_with |-> Scalar(n)] :
            n \in Names \ {name}}

\* the options of a registration with one relation at most; besides the valid
\* ones, `arguments` with min > max and empty `choices`
Options(name) ==
    {[flag |-> FlagOf(name), mandatory |-> m, default |-> d, arguments |-> n,
      flag_separator |-> " ", choices |-> c,
      requires |-> r.requires, required_by |-> r.required_by,
      conflicts_with |-> r.conflicts_with, args_separator |-> " "] :
        m \in BOOLEAN, d \in {NoneVal, Scalar(1)}, r \in Relations(name),
        n \in {NoneVal, ListOf(<<2, 1>>)}, c \in {NoneVal, ListOf(<<>>)}}

\* a second add_argument for a name raises at line 48, before it reads any
\* other parameter: one choice of them stands for all
OptionsFor(name, al, options) ==
    IF name \in Keys(al) THEN {CHOOSE opt \in options : TRUE} ELSE options

\* the registered names in either order, the unknown name last when supplied
Kwargs ==
    LET known == OrderedDicts(Registrable, {Scalar(1)})
    IN  known \cup {Append(k, [name |-> "c", value |-> Scalar(1)]) : k \in known}

\* iteration orders of a set of names
SetOrders == {<<"a", "b", "c">>, <<"c", "b", "a">>}

Next ==
    \/ \E name \in Registrable : \E opt \in OptionsFor(name, arguments_list, Options(name)) :
            add_argument(name, opt)
    \/ \E kwargs \in Kwargs : \E setOrder \in SetOrders : parse_args(kwargs, setOrder)

Spec == Init /\ [][Next]_vars

---------------------------------------------------------------------------
(* The second specification: one argument, every cardinality, choices, and *)
(* values of every length up to MaxLen                                     *)

ItemsOfLen(n) == [i \in 1..n |-> IF i % 3 = 0 THEN NoneItem ELSE i % 3]

ParseValues ==
    {NoneVal, Scalar(1), Scalar(3)} \cup {ListOf(ItemsOfLen(n)) : n \in 0..MaxLen}

ParseOptions(name) ==
    {[flag |-> FlagOf(name), mandatory |-> m, default |-> d, arguments |-> n,
      flag_separator |-> fs, choices |-> c,
      requires |-> NoneVal, required_by |-> NoneVal, conflicts_with |-> NoneVal,
      args_separator |-> ","] :
        m \in BOOLEAN,
        d \in {NoneVal, Scalar(1), ListOf(<<1, 2, 1>>)},
        n \in {NoneVal, Scalar(0), Scalar(1), ListOf(<<1, 2>>), ListOf(<<2, 1>>),
               ListOf(<<NoneItem, 2>>), ListOf(<<-1, 0>>), ListOf(<<1, 2, 3>>)},
        c \in {NoneVal, ListOf(<<>>), ListOf(<<1, 2, NoneItem>>)},
        fs \in {" ", "="}}

ParseKwargs == {<<>>} \cup {<<[name |-> "a", value |-> v]>> : v \in ParseValues}

ParseNext ==
    \/ \E opt \in OptionsFor("a", arguments_list, ParseOptions("a")) : add_argument("a", opt)
    \/ \E kwargs \in ParseKwargs : \E setOrder \in SetOrders : parse_args(kwargs, setOrder)

ParseSpec == Init /\ [][ParseNext]_vars

---------------------------------------------------------------------------
(* Vocabulary of the properties *)

Registered == Keys(arguments_list)

\* the names the last parse_args call supplied a value for, unknown ones included
Supplied == KwNames(lastKw)

Called == lastOp = "parse_args"

Returned == Called /\ result.err = ""

HasDefault(name) == Params(arguments_list, name).default.kind # "none"

\* B is a required predecessor of A: B in A.requires, or A in B.required_by
Predecessors(A) ==
    {B \in Names :
        \/ A \in Registered /\ B \in Range(Params(arguments_list, A).requires)
        \/ B \in Registered /\ A \in Range(Params(arguments_list, B).required_by)}

\* the registered names whose mandatory flag differs from the registered one
Elevated ==
    {n \in Registered : Params(arguments_list, n).mandatory # declared[n]}

\* same output string, or a failure both times
SameOutcome(r1, r2) == ((r1.err = "") = (r2.err = "")) /\ r1.out = r2.out

\* kwargs with its entries in the order of the names in `order`
Reordered(kwargs, order) ==
    LET names == InOrder(KwNames(kwargs), order)
    IN  [i \in DOMAIN names |-> [name |-> names[i], value |-> KwGet(kwargs, names[i])]]

\* the number of items of a value that is not None
ItemCount(value) == IF value.kind = "scalar" THEN 1 ELSE Len(value.items)

---------------------------------------------------------------------------
(* C1: after any sequence of calls, every registered argument's mandatory  *)
(* flag is the one it was registered with.                                 *)
C1_MandatoryAsRegistered ==
    \A i \in DOMAIN arguments_list :
        arguments_list[i].params.mandatory = declared[arguments_list[i].name]

(* C2: parse_args with no values returns if and only if no argument was    *)
(* registered mandatory without a default, also after earlier calls.       *)
C2_EmptyRender ==
    (Called /\ lastKw = <<>>) =>
        (result.err = ""
            <=> \A n \in Registered : ~(declared[n] /\ ~HasDefault(n)))

(* C3: two consecutive parse_args calls with the same value set give the   *)
(* same output string, or fail both times.                                 *)
C3_Idempotent ==
    [][(lastOp = "parse_args" /\ lastOp' = "parse_args" /\ Range(lastKw') = Range(lastKw))
        => SameOutcome(result, result')]_vars

\* the second of two equal calls returned two tokens, one from an elevated default
C3_Witness ==
    /\ repeated
    /\ Returned
    /\ Len(result.emitted) = 2
    /\ Elevated # {}

(* C4: whatever order the values are supplied in and whatever order the    *)
(* sets are iterated in, the outcome of parse_args is the one the same     *)
(* values give when both orders are alphabetical, and the tokens are in    *)
(* registration order.                                                     *)
C4_OrderInvariant ==
    [][lastOp' = "parse_args" =>
        /\ \A c \in {ParseArgsResult(arguments_list, parameters_separator, strict,
                                     Reordered(lastKw', <<"a", "b", "c">>),
                                     <<"a", "b", "c">>).res} :
                SameOutcome(c, result')
        /\ result'.emitted
             = SelectSeq(KeySeq(arguments_list'), LAMBDA n : n \in Range(result'.emitted))]_vars

\* two values supplied in the order opposite to registration, two tokens returned
C4_Witness ==
    /\ Returned
    /\ Len(lastKw) = 2
    /\ KeySeq(arguments_list) = <<lastKw[2].name, lastKw[1].name>>
    /\ result.emitted = KeySeq(arguments_list)

(* C5: when B is a required predecessor of A, a call that supplies A but   *)
(* not B and reaches the dependency check fails with MissingDependency if  *)
(* B has no default; if B has a default the pair does not fail the check   *)
(* and a call that returns has emitted B's token.                          *)
C5_DependencyPropagation ==
    (Called /\ result.stage # "surplus") =>
        \A A \in Supplied \cap Registered : \A B \in Predecessors(A) \ Supplied :
            IF B \in Registered /\ HasDefault(B)
            THEN /\ ~(result.stage = "dependencies" /\ result.argument = A /\ result.other = B)
                 /\ result.err = "" => B \in Range(result.emitted)
            ELSE result.err = "MissingDependency"

(* C6: when the dependency check passes, the call fails with               *)
(* ConflictingArguments exactly when a supplied A lists in conflicts_with  *)
(* a C that is supplied or was made mandatory by this call's dependency    *)
(* check (stated for calls whose conflicts_with names are all registered). *)
C6_ConflictExactly ==
    LET supplied == Supplied \cap Registered
        implicit == UNION {Predecessors(A) : A \in supplied}
    IN  (/\ Called
         /\ result.stage \in {"conflicts", "render", "done"}
         /\ \A A \in supplied :
                Range(Params(arguments_list, A).conflicts_with) \subseteq Registered)
        =>
            result.err = "ConflictingArguments"
                <=> \E A \in supplied :
                        \E C \in Range(Params(arguments_list, A).conflicts_with) :
                            C \in supplied \/ C \in implicit

(* C7: for the one registered argument, when the call reaches the render   *)
(* step with a value for it (supplied, or the default of a mandatory       *)
(* argument): bounds (0, 0) and a supplied value give the bare flag;       *)
(* other bounds give a cardinality failure exactly when the number of      *)
(* items is outside [min_arguments, max_arguments].                        *)
C7_Cardinality ==
    (Called /\ result.stage \in {"render", "done"} /\ Len(arguments_list) = 1) =>
        LET p == arguments_list[1].params
            v == KwGet(lastKw, arguments_list[1].name)
            resolved == IF v.kind # "none" THEN v
                        ELSE IF p.mandatory THEN p.default ELSE NoneVal
        IN  resolved.kind # "none" =>
                IF p.min_arguments = 0 /\ p.max_arguments = 0
                THEN v.kind # "none" => (result.err = "" /\ result.out = p.flag)
                ELSE result.err = "CardinalityViolation"
                        <=> (ItemCount(resolved) < p.min_arguments
                             \/ ItemCount(resolved) > p.max_arguments)

\* bounds (1, 2) and three items supplied: rejected
C7_Witness ==
    /\ Called
    /\ Len(arguments_list) = 1
    /\ arguments_list[1].params.min_arguments = 1
    /\ arguments_list[1].params.max_arguments = 2
    /\ Len(lastKw) = 1
    /\ ItemCount(lastKw[1].value) = 3
    /\ result.err = "CardinalityViolation"

(* C8: with strict set, a call with a value under an unregistered name     *)
(* fails with the lookup error before any other step and leaves the        *)
(* registry as it was; with strict unset, it does what the call with the   *)
(* values under the registered names alone does.                           *)
C8_Strict ==
    [][(lastOp' = "parse_args" /\ KwNames(lastKw') \ Registered # {}) =>
        IF strict
        THEN /\ result'.err = "UnknownArgument"
             /\ result'.stage = "surplus"
             /\ arguments_list' = arguments_list
        ELSE \E setOrder \in SetOrders :
                \E r \in {ParseArgsResult(arguments_list, parameters_separator, strict,
                                          SelectSeq(lastKw', LAMBDA e : e.name \in Registered),
                                          setOrder)} :
                    r.res = result' /\ r.al = arguments_list']_vars

\* strict: the call was refused although the dependency check would have set a flag
C8_Witness ==
    /\ strict
    /\ Called
    /\ result.err = "UnknownArgument"
    /\ \E A \in Supplied \cap Registered : \E B \in Predecessors(A) \cap Registered :
            /\ B \notin Supplied
            /\ HasDefault(B)
            /\ ~Params(arguments_list, B).mandatory

(* C9: add_argument with a registered name fails with DuplicateName; a     *)
(* failed add_argument leaves the registry as it was; a successful one     *)
(* appends one entry under the new name and changes no other entry.        *)
C9_Registration ==
    [][lastOp' = "add_argument" =>
        LET name == result'.argument
        IN  /\ name \in Registered => result'.err = "DuplicateName"
            /\ result'.err # "" => arguments_list' = arguments_list
            /\ result'.err = "" =>
                /\ name \notin Registered
                /\ Len(arguments_list') = Len(arguments_list) + 1
                /\ SubSeq(arguments_list', 1, Len(arguments_list)) = arguments_list
                /\ arguments_list'[Len(arguments_list')].name = name]_vars

\* a second registration of a name was refused with two arguments registered
C9_Witness ==
    /\ lastOp = "add_argument"
    /\ result.err = "DuplicateName"
    /\ Len(arguments_list) = 2

(* C10: in a call that returns, when the token of A is emitted, the token  *)
(* of every registered required predecessor of A is emitted as well.       *)
C10_DependenciesClosed ==
    Returned =>
        \A A \in Range(result.emitted) : \A B \in Predecessors(A) \cap Registered :
            B \in Range(result.emitted)

====
